---------------------------- MODULE Spec2Model ----------------------------
(***************************************************************************)
(* Model of the two PDF tools of the repository:                           *)
(*   adobe-hack-1a/app.py : outline extraction (extract_outline,           *)
(*                          classify_heading_level)                        *)
(*   adobe-hack-1b/app.py : persona ranking (extract_sections,             *)
(*                          boost_score_with_keywords, score_sections,     *)
(*                          main)                                          *)
(* A text is a sequence of one-character strings.  Font sizes are counted  *)
(* in tenths of a point (round(size, 1) * 10) and scores in hundredths, so *)
(* that 1.0pt is 10 and the 0.05 keyword boost is 5.                       *)
(***************************************************************************)
EXTENDS Integers, Sequences, FiniteSets, TLC

VARIABLES
    \* ---- adobe-hack-1a/app.py, extract_outline ----
    pc,                     \* position in extract_outline
    doc,                    \* the lines of the document read so far (input)
    page_num,               \* enumerate(doc, start=1)
    candidates,             \* list of candidate dicts
    font_sizes,             \* list of span font sizes
    most_common_font_size,  \* body text size
    outline,                \* list of heading dicts
    seen,                   \* set of texts already considered
    ci,                     \* index of the next candidate of the second loop
    \* ---- adobe-hack-1a/app.py, classify_heading_level on its own ----
    lv_pc, lv_a, lv_b, lv_ra, lv_rb,
    \* ---- adobe-hack-1b/app.py, extract_sections on its own ----
    sx_pc, sx_doc, sx_out,
    \* ---- adobe-hack-1b/app.py, boost_score_with_keywords on its own ----
    bs_pc, bs_text, bs_other, bs_base, bs_result, bs_result_other,
    \* ---- adobe-hack-1b/app.py, main ----
    rk_pc,                  \* position in main
    model,                  \* similarity of the loaded embedding model
    testcases,              \* os.listdir(testcase_root), with what each holds
    ti,                     \* index of the current testcase
    fi,                     \* index of the next file name of the input folder
    persona_text,
    all_sections,
    out_dirs,               \* testcases whose output folder exists
    out_files               \* testcase index -> the JSON written for it

outlineVars == <<pc, doc, page_num, candidates, font_sizes,
                 most_common_font_size, outline, seen, ci>>
levelVars   == <<lv_pc, lv_a, lv_b, lv_ra, lv_rb>>
sectionVars == <<sx_pc, sx_doc, sx_out>>
boostVars   == <<bs_pc, bs_text, bs_other, bs_base, bs_result, bs_result_other>>
rankVars    == <<rk_pc, model, testcases, ti, fi, persona_text, all_sections,
                 out_dirs, out_files>>
vars == <<outlineVars, levelVars, sectionVars, boostVars, rankVars>>

-----------------------------------------------------------------------------
(* Python str operations, on sequences of characters.                      *)

UpperAlpha == <<"A","B","C","D","E","F","G","H","I","J","K","L","M",
                "N","O","P","Q","R","S","T","U","V","W","X","Y","Z">>
LowerAlpha == <<"a","b","c","d","e","f","g","h","i","j","k","l","m",
                "n","o","p","q","r","s","t","u","v","w","x","y","z">>
Digits     == {"0","1","2","3","4","5","6","7","8","9"}
Whitespace == {" ", "\t"}

UpperSet == {UpperAlpha[i] : i \in 1..Len(UpperAlpha)}
LowerSet == {LowerAlpha[i] : i \in 1..Len(LowerAlpha)}
LowerOf  == [c \in UpperSet |->
                LowerAlpha[CHOOSE i \in 1..Len(UpperAlpha) : UpperAlpha[i] = c]]

IsUpperChar(c) == c \in UpperSet
IsLowerChar(c) == c \in LowerSet

\* a function over 1..n as an explicit list
List(f) == f \o <<>>

\* str.lower(), one character
LowerChar(c) == IF c \in UpperSet THEN LowerOf[c] ELSE c

\* str.lower()
lower(s) == List([i \in 1..Len(s) |-> LowerChar(s[i])])

\* str.strip()
strip(s) ==
    LET keep == {i \in 1..Len(s) : s[i] \notin Whitespace}
    IN  IF keep = {} THEN <<>>
        ELSE LET lo == CHOOSE i \in keep :
                           \A j \in 1..(i - 1) : s[j] \in Whitespace
                 hi == CHOOSE i \in keep :
                           \A j \in (i + 1)..Len(s) : s[j] \in Whitespace
             IN  SubSeq(s, lo, hi)

\* str.isupper(): at least one cased character and no lower-case one
isupper(s) ==
    /\ \E i \in 1..Len(s) : IsUpperChar(s[i])
    /\ \A i \in 1..Len(s) : ~IsLowerChar(s[i])

\* str.count(c) for a single character c
count(s, c) == Cardinality({i \in 1..Len(s) : s[i] = c})

\* sub in s
Contains(s, sub) ==
    \E i \in 0..(Len(s) - Len(sub)) :
        \A j \in 1..Len(sub) : s[i + j] = sub[j]

\* s.endswith(suf)
endswith(s, suf) ==
    /\ Len(suf) <= Len(s)
    /\ SubSeq(s, Len(s) - Len(suf) + 1, Len(s)) = suf

\* s[:n]
Take(s, n) == SubSeq(s, 1, IF Len(s) < n THEN Len(s) ELSE n)

Min(a, b) == IF a < b THEN a ELSE b

\* Counter(xs).most_common(1)[0][0]: the most frequent element, the first
\* one seen among equally frequent ones
MostCommon(xs) ==
    LET cnt(x)   == Cardinality({i \in 1..Len(xs) : xs[i] = x})
        first(x) == CHOOSE i \in 1..Len(xs) :
                        /\ xs[i] = x
                        /\ \A j \in 1..Len(xs) : xs[j] = x => i <= j
        best     == CHOOSE i \in 1..Len(xs) :
                        /\ first(xs[i]) = i
                        /\ \A j \in 1..Len(xs) :
                              \/ cnt(xs[j]) < cnt(xs[i])
                              \/ cnt(xs[j]) = cnt(xs[i]) /\ i <= first(xs[j])
    IN  xs[best]

-----------------------------------------------------------------------------
(* adobe-hack-1a/app.py                                                    *)

\* index after the longest run of digits of text that starts at index i
RECURSIVE DigitsEnd(_, _)
DigitsEnd(text, i) ==
    IF i <= Len(text) /\ text[i] \in Digits
    THEN DigitsEnd(text, i + 1)
    ELSE i

\* index after the repetitions (\.\d+)* that start at index i
RECURSIVE GroupsEnd(_, _)
GroupsEnd(text, i) ==
    IF /\ i <= Len(text)
       /\ text[i] = "."
       /\ DigitsEnd(text, i + 1) > i + 1
    THEN GroupsEnd(text, DigitsEnd(text, i + 1))
    ELSE i

\* re.match(r'^(\d+)(\.\d+)*\s+', text) is not None
NumericPrefixMatch(text) ==
    LET d == DigitsEnd(text, 1)
        g == GroupsEnd(text, d)
    IN  /\ d > 1
        /\ g <= Len(text)
        /\ text[g] \in Whitespace

LevelName(n) == <<"H1", "H2", "H3">>[n]

classify_heading_level(text) ==
    IF ~NumericPrefixMatch(text)
    THEN "None"
    ELSE LET depth == count(text, ".")
         IN  LevelName(Min(depth + 1, 3))


\* bool(flags & 2)
is_bold(flags) == (flags \div 2) % 2 = 1

\* the spans of a line whose stripped text is not empty (lines 52-54)
KeptSpans(spans) == SelectSeq(spans, LAMBDA sp : strip(sp.text) # <<>>)

\* full_line_text += text + " " over the kept spans (line 61)
RECURSIVE JoinStripped(_)
JoinStripped(kept) ==
    IF kept = <<>> THEN <<>>
    ELSE strip(Head(kept).text) \o <<" ">> \o JoinStripped(Tail(kept))

\* full_line_text after line 62
full_line_text(spans) == strip(JoinStripped(KeptSpans(spans)))

\* span_fonts of a line (line 59)
span_fonts(spans) ==
    LET kept == KeptSpans(spans)
    IN  List([i \in 1..Len(kept) |->
                 <<kept[i].size, kept[i].font, is_bold(kept[i].flags)>>])

\* the font sizes a line appends to font_sizes (line 60)
LineFontSizes(spans) ==
    LET kept == KeptSpans(spans)
    IN  List([i \in 1..Len(kept) |-> kept[i].size])

\* the candidate dict of a line with text (lines 70-78)
Candidate(spans, page) ==
    LET most_common == MostCommon(span_fonts(spans))
    IN  [text      |-> full_line_text(spans),
         page      |-> page,
         font_size |-> most_common[1],
         font_name |-> most_common[2],
         is_bold   |-> most_common[3]]

\* is_heading with the size test off by one tenth: >= instead of >
is_heading_AtLeast(c, body_size) ==
    \/ c.font_size >= body_size + 10
    \/ c.is_bold
    \/ isupper(c.text)
    \/ NumericPrefixMatch(c.text)

\* is_heading of a candidate (lines 95-100)
is_heading(c, body_size) ==
    \/ c.font_size > body_size + 10
    \/ c.is_bold
    \/ isupper(c.text)
    \/ NumericPrefixMatch(c.text)

\* the dict appended to outline (lines 103-109)
Heading(c) ==
    LET l == classify_heading_level(c.text)
    IN  [level |-> IF l = "None" THEN "H1" ELSE l,
         text  |-> c.text,
         page  |-> c.page]

\* the skip test without the seen set
SkipCandidate_NoSeen(c, seenTexts) == Len(c.text) < 5

\* the candidates that the second loop skips (line 90)
SkipCandidate(c, seenTexts) == c.text \in seenTexts \/ Len(c.text) < 5

(* Input of extract_outline: the text lines of a document, each a list of  *)
(* spans, read in document order.                                          *)
MaxLines == 3

Sp(t, s, f, fl) == [text |-> t, size |-> s, font |-> f, flags |-> fl]

LineSet ==
    { <<Sp(<<"a","b","c","d","e">>, 110, "Sans", 4)>>,
      <<Sp(<<"a","b","c","d","e">>, 111, "Sans", 0)>>,
      <<Sp(<<"1"," ","a",".","a">>, 100, "Sans", 0)>>,
      <<Sp(<<"1",".","1">>, 100, "Serif", 0),
        Sp(<<" ">>, 111, "Sans", 0),
        Sp(<<"a">>, 100, "Sans", 0)>>,
      <<Sp(<<"A","B","C","D","E">>, 100, "Sans", 0)>>,
      <<Sp(<<"a","b","c">>, 100, "Sans", 2)>>,
      <<Sp(<<" ">>, 111, "Sans", 0)>>,
      <<Sp(<<"a","b">>, 100, "Sans", 18), Sp(<<" ","c","d","e"," ">>, 111, "Sans", 0)>> }

OutlineInit ==
    /\ pc = "scan"
    /\ doc = <<>>
    /\ page_num = 1
    /\ candidates = <<>>
    /\ font_sizes = <<>>
    /\ most_common_font_size = 0
    /\ outline = <<>>
    /\ seen = {}
    /\ ci = 1

\* one iteration of the loop over the lines (lines 48-78); the line is the
\* next one of the current page (np = 0) or the first one of the next page
ReadLine(spans, np) ==
    /\ pc = "scan"
    /\ Len(doc) < MaxLines
    /\ page_num' = page_num + np
    /\ doc' = Append(doc, [page |-> page_num', spans |-> spans])
    /\ font_sizes' = font_sizes \o LineFontSizes(spans)
    /\ candidates' =
          IF full_line_text(spans) # <<>>
          THEN Append(candidates, Candidate(spans, page_num'))
          ELSE candidates
    /\ UNCHANGED <<pc, most_common_font_size, outline, seen, ci>>

\* if not font_sizes: return []  (lines 80-81)
ReturnEmpty ==
    /\ pc = "scan"
    /\ font_sizes = <<>>
    /\ pc' = "done"
    /\ UNCHANGED <<doc, page_num, candidates, font_sizes,
                   most_common_font_size, outline, seen, ci>>

\* body text size, outline = [], seen = set()  (lines 84-87)
BodyTextSize ==
    /\ pc = "scan"
    /\ font_sizes # <<>>
    /\ most_common_font_size' = MostCommon(font_sizes)
    /\ outline' = <<>>
    /\ seen' = {}
    /\ ci' = 1
    /\ pc' = "filter"
    /\ UNCHANGED <<doc, page_num, candidates, font_sizes>>

\* one iteration of the loop over the candidates (lines 89-109)
FilterCandidate ==
    /\ pc = "filter"
    /\ ci <= Len(candidates)
    /\ LET c == candidates[ci]
       IN  IF SkipCandidate(c, seen)
           THEN UNCHANGED <<seen, outline>>
           ELSE /\ seen' = seen \cup {c.text}
                /\ outline' =
                      IF is_heading(c, most_common_font_size)
                      THEN Append(outline, Heading(c))
                      ELSE outline
    /\ ci' = ci + 1
    /\ UNCHANGED <<pc, doc, page_num, candidates, font_sizes,
                   most_common_font_size>>

\* return outline  (line 111)
ReturnOutline ==
    /\ pc = "filter"
    /\ ci > Len(candidates)
    /\ pc' = "done"
    /\ UNCHANGED <<doc, page_num, candidates, font_sizes,
                   most_common_font_size, outline, seen, ci>>

OutlineNext ==
    \/ \E spans \in LineSet, np \in {0, 1} : ReadLine(spans, np)
    \/ ReturnEmpty
    \/ BodyTextSize
    \/ FilterCandidate
    \/ ReturnOutline

-----------------------------------------------------------------------------
(* adobe-hack-1b/app.py                                                    *)
(* The box-drawing characters of the blocklist are written as the          *)
(* one-character strings "U2502", "U251C", "U2500" and "U2514".            *)

financial_keywords ==
    <<
      <<"r","e","v","e","n","u","e">>,
      <<"R","&","D">>,
      <<"r","e","s","e","a","r","c","h"," ","a","n","d"," ","d","e","v","e","l","o","p","m","e","n","t">>,
      <<"i","n","v","e","s","t","m","e","n","t">>,
      <<"f","u","n","d","i","n","g">>,
      <<"c","a","p","i","t","a","l">>,
      <<"e","x","p","e","n","s","e","s">>,
      <<"p","r","o","f","i","t">>,
      <<"n","e","t"," ","i","n","c","o","m","e">>,
      <<"e","a","r","n","i","n","g","s">>,
      <<"l","o","s","s">>,
      <<"c","o","s","t">>,
      <<"m","a","r","k","e","t">>,
      <<"c","o","m","p","e","t","i","t","i","o","n">>,
      <<"s","t","r","a","t","e","g","y">>,
      <<"p","o","s","i","t","i","o","n","i","n","g">>,
      <<"g","r","o","w","t","h">>,
      <<"t","r","e","n","d">>,
      <<"Q","1">>,
      <<"Q","2">>,
      <<"Q","3">>,
      <<"Q","4">>,
      <<"2","0","2","2">>,
      <<"2","0","2","3">>,
      <<"2","0","2","4">>,
      <<"f","i","n","a","n","c","i","a","l"," ","p","e","r","f","o","r","m","a","n","c","e">>,
      <<"a","n","n","u","a","l"," ","r","e","p","o","r","t">>,
      <<"i","n","c","o","m","e"," ","s","t","a","t","e","m","e","n","t">>,
      <<"b","a","l","a","n","c","e"," ","s","h","e","e","t">>
    >>

\* the list of line 41
Blocklist ==
    << <<".","p","y">>,
       <<".","k","e","r","a","s">>,
       <<"U2502">>,
       <<"U251C","U2500","U2500">>,
       <<"U2514","U2500","U2500">> >>

MinSectionLen == 30
TitleLen      == 120
BodyLen       == 600
TopN          == 20
BoostStep     == 5

\* " ".join([span["text"] for span in line["spans"]])
RECURSIVE JoinTexts(_)
JoinTexts(spans) ==
    IF spans = <<>> THEN <<>>
    ELSE IF Len(spans) = 1 THEN Head(spans).text
    ELSE Head(spans).text \o <<" ">> \o JoinTexts(Tail(spans))

\* line_text of a line (line 35)
line_text(spans) == strip(JoinTexts(spans))

\* the drop test with the blocklist matched against the text as written
SkipLine_CaseSensitive(spans) ==
    LET t == line_text(spans)
    IN  \/ t = <<>>
        \/ Len(t) < MinSectionLen
        \/ \E k \in 1..Len(Blocklist) : Contains(t, Blocklist[k])

\* the lines that extract_sections drops (lines 39-42)
SkipLine(spans) ==
    LET t == line_text(spans)
    IN  \/ t = <<>>
        \/ Len(t) < MinSectionLen
        \/ \E k \in 1..Len(Blocklist) : Contains(lower(t), Blocklist[k])

\* the dict appended to sections (lines 49-57); the language tag, which
\* langdetect supplies and nothing reads, is left out
Section(document, ln) ==
    LET t == line_text(ln.spans)
    IN  [document      |-> document,
         page          |-> ln.page,
         section_title |-> Take(t, TitleLen),
         refined_text  |-> Take(t, BodyLen),
         level         |-> "H1",
         bold          |-> \E k \in 1..Len(ln.spans) :
                               Contains(ln.spans[k].font, <<"B","o","l","d">>)]

\* extract_sections(pdf_path), where document = os.path.basename(pdf_path)
\* and lines are the text lines of the PDF in page order
extract_sections(document, lines) ==
    LET kept == SelectSeq(lines, LAMBDA ln : ~SkipLine(ln.spans))
    IN  List([i \in 1..Len(kept) |-> Section(document, kept[i])])

\* word.lower() for every word of the list (line 63)
lowered_keywords ==
    List([k \in 1..Len(financial_keywords) |-> lower(financial_keywords[k])])

\* the keyword test with the word as written: word in text.lower()
KeywordHit_WordAsWritten(low_text, k) ==
    Contains(low_text, financial_keywords[k])

\* word.lower() in text.lower() for the k-th word, given text.lower()
KeywordHit(low_text, k) == Contains(low_text, lowered_keywords[k])

\* the loop of boost_score_with_keywords from the k-th word on (lines 61-64),
\* given text.lower()
RECURSIVE BoostCount(_, _)
BoostCount(low_text, k) ==
    IF k > Len(financial_keywords) THEN 0
    ELSE (IF KeywordHit(low_text, k) THEN 1 ELSE 0)
         + BoostCount(low_text, k + 1)

boost_score_with_keywords(text, original_score) ==
    original_score + BoostStep * BoostCount(lower(text), 1)

\* section.get("refined_text") or section.get("section_title", "")
section_text(section) ==
    IF section.refined_text # <<>> THEN section.refined_text
    ELSE section.section_title

\* the loop of score_sections (lines 69-74); sim is the cosine similarity
\* the embedding model gives for a persona and a text
Scored(sections, persona, sim) ==
    List([i \in 1..Len(sections) |->
        [document      |-> sections[i].document,
         page          |-> sections[i].page,
         section_title |-> sections[i].section_title,
         refined_text  |-> sections[i].refined_text,
         level         |-> sections[i].level,
         bold          |-> sections[i].bold,
         boosted_score |->
             boost_score_with_keywords(section_text(sections[i]),
                 sim[<<persona, section_text(sections[i])>>])]])

\* an insertion that puts x ahead of the elements with an equal key
InsertDesc_BeforeEqual(sorted, x) ==
    LET ahead == {i \in 1..Len(sorted) :
                     sorted[i].boosted_score > x.boosted_score}
        n     == Cardinality(ahead)
    IN  SubSeq(sorted, 1, n) \o <<x>> \o SubSeq(sorted, n + 1, Len(sorted))

\* where list.sort(key, reverse=True) puts x in a sorted list: behind every
\* element whose key is not smaller
InsertDesc(sorted, x) ==
    LET ahead == {i \in 1..Len(sorted) :
                     sorted[i].boosted_score >= x.boosted_score}
        n     == Cardinality(ahead)
    IN  SubSeq(sorted, 1, n) \o <<x>> \o SubSeq(sorted, n + 1, Len(sorted))

\* sections.sort(key=lambda x: x["boosted_score"], reverse=True)
RECURSIVE SortDesc(_)
SortDesc(sections) ==
    IF sections = <<>> THEN <<>>
    ELSE InsertDesc(SortDesc(SubSeq(sections, 1, Len(sections) - 1)),
                    sections[Len(sections)])

score_sections(sections, persona, sim) ==
    SortDesc(Scored(sections, persona, sim))

\* no truncation
Top_All(sorted) == sorted

\* score_sections(...)[:20]  (line 102)
Top(sorted) == Take(sorted, TopN)

\* enumerate(ranked, start=1) setting importance_rank (lines 104-105)
WithRanks(top) ==
    List([i \in 1..Len(top) |->
            [document        |-> top[i].document,
             page            |-> top[i].page,
             section_title   |-> top[i].section_title,
             refined_text    |-> top[i].refined_text,
             level           |-> top[i].level,
             bold            |-> top[i].bold,
             boosted_score   |-> top[i].boosted_score,
             importance_rank |-> i]])

\* [f for f in os.listdir(input_path) if f.endswith(".pdf")]  (line 109)
input_documents(files) ==
    SelectSeq(files, LAMBDA f : endswith(f, <<".","p","d","f">>))

\* fname.lower().endswith(".pdf")  (line 98)
IsPdfName(fname) == endswith(lower(fname), <<".","p","d","f">>)

\* the dict written to challenge1b_output.json (lines 107-127); the job
\* string and the timestamp of the metadata are left out
Output(files, persona, ranked) ==
    [metadata |->
        [input_documents |-> input_documents(files),
         persona         |-> persona],
     extracted_sections |->
        List([i \in 1..Len(ranked) |->
            [document        |-> ranked[i].document,
             page            |-> ranked[i].page,
             section_title   |-> ranked[i].section_title,
             level           |-> ranked[i].level,
             bold            |-> ranked[i].bold,
             boosted_score   |-> ranked[i].boosted_score,
             importance_rank |-> ranked[i].importance_rank]]),
     subsection_analysis |->
        List([i \in 1..Len(ranked) |->
            [document     |-> ranked[i].document,
             page         |-> ranked[i].page,
             refined_text |-> ranked[i].refined_text,
             page_number  |-> ranked[i].page]])]

(* Input of main: the testcase folders in os.listdir order.  A testcase    *)
(* is [has_input, has_persona, files, persona]: whether its input folder    *)
(* and its persona.txt exist, os.listdir(input_path) and the content of     *)
(* persona.txt.  The content of a PDF is given by its file name.            *)

Rep(c, n) == List([i \in 1..n |-> c])

RevenueText == <<"r","e","v","e","n","u","e"," ","Q","3"," ">> \o Rep("x", 20)
PlainText   == Rep("y", 30)
CostText    == <<"C","o","s","t"," ">> \o Rep("z", 26)
ShortText   == <<"r","e","v","e","n","u","e"," ","Q","3">>
ScriptText  == <<"m","a","i","n",".","P","Y"," ">> \o Rep("w", 30)

RegularFont == <<"S","a","n","s">>
BoldFont    == <<"S","a","n","s","-","B","o","l","d">>

FileA == <<"a",".","p","d","f">>
FileB == <<"b",".","P","D","F">>
FileC == <<"c",".","t","x","t">>
FileD == <<"d",".","p","d","f">>
FileE == <<"e",".","P","d","f">>
FileNames == {FileA, FileB, FileC}

\* a PDF of so many pages with the three texts on every page
PagesOf(texts, pages) ==
    List([i \in 1..(3 * pages) |->
        [page  |-> ((i - 1) \div 3) + 1,
         spans |-> <<Sp(texts[((i - 1) % 3) + 1], 100,
                        IF i % 2 = 0 THEN BoldFont ELSE RegularFont, 0)>>]])

PdfDoc(fname) ==
    IF fname = FileA
    THEN <<[page |-> 1, spans |-> <<Sp(ShortText, 100, BoldFont, 0)>>]>>
         \o PagesOf(<<RevenueText, PlainText, CostText>>, 4)
    ELSE IF fname = FileB
    THEN PagesOf(<<CostText, RevenueText, PlainText>>, 3)
         \o <<[page |-> 3, spans |-> <<Sp(ScriptText, 100, RegularFont, 0)>>]>>
    ELSE IF fname = FileD
    THEN <<[page |-> 1, spans |-> <<Sp(PlainText, 100, RegularFont, 0)>>],
           [page |-> 2, spans |-> <<Sp(RevenueText, 100, BoldFont, 0)>>]>>
    ELSE IF fname = FileE
    THEN <<[page |-> 1, spans |-> <<Sp(CostText, 100, RegularFont, 0)>>],
           [page |-> 1, spans |-> <<Sp(ShortText, 100, BoldFont, 0)>>],
           [page |-> 1, spans |-> <<Sp(PlainText, 100, RegularFont, 0)>>]>>
    ELSE <<>>

PersonaFiles == { <<"C","F","O">>, <<" ","H","R"," ">> }
Personas     == {strip(p) : p \in PersonaFiles}
SectionTexts == {RevenueText, PlainText, CostText}
ScoreSet     == {0 - BoostStep, 0, BoostStep}

MaxFiles     == 2
MaxTestcases == 2

\* the lists of distinct file names of at most n names
RECURSIVE FileLists(_)
FileLists(n) ==
    IF n = 0 THEN {<<>>}
    ELSE LET prev == FileLists(n - 1)
         IN  prev \cup
             {l \in {Append(m, f) : m \in prev, f \in FileNames} :
                 /\ Len(l) = n
                 /\ \A i, j \in 1..n : i # j => l[i] # l[j]}

TestcaseSet(lists, personas) ==
    {[has_input |-> TRUE, has_persona |-> TRUE, files |-> l, persona |-> p] :
         l \in lists, p \in personas}
    \cup {[has_input |-> TRUE, has_persona |-> FALSE, files |-> l,
           persona |-> <<>>] : l \in lists}
    \cup {[has_input |-> FALSE, has_persona |-> TRUE, files |-> <<>>,
           persona |-> p] : p \in personas}
    \cup {[has_input |-> FALSE, has_persona |-> FALSE, files |-> <<>>,
           persona |-> <<>>]}

RECURSIVE SeqsUpTo(_, _)
SeqsUpTo(S, n) ==
    IF n = 0 THEN {<<>>}
    ELSE SeqsUpTo(S, n - 1) \cup
         {Append(q, x) : q \in {r \in SeqsUpTo(S, n - 1) : Len(r) = n - 1},
                         x \in S}

\* main before its loop (lines 80-83), for a given model and listing
MainInit(sim, listing) ==
    /\ rk_pc = "loop"
    /\ model = sim
    /\ testcases = listing
    /\ ti = 1
    /\ fi = 1
    /\ persona_text = <<>>
    /\ all_sections = <<>>
    /\ out_dirs = {}
    /\ out_files = <<>>

\* a testcase without input folder or persona.txt (lines 89-91)
SkipTestcase ==
    /\ rk_pc = "loop"
    /\ ti <= Len(testcases)
    /\ ~testcases[ti].has_input \/ ~testcases[ti].has_persona
    /\ ti' = ti + 1
    /\ UNCHANGED <<rk_pc, model, testcases, fi, persona_text, all_sections,
                   out_dirs, out_files>>

\* the start of a testcase without all_sections = []
BeginTestcase_NoReset ==
    /\ rk_pc = "loop"
    /\ ti <= Len(testcases)
    /\ testcases[ti].has_input /\ testcases[ti].has_persona
    /\ out_dirs' = out_dirs \cup {ti}
    /\ persona_text' = strip(testcases[ti].persona)
    /\ fi' = 1
    /\ rk_pc' = "files"
    /\ UNCHANGED <<model, testcases, ti, out_files, all_sections>>

\* os.makedirs, load_text, all_sections = []  (lines 93-95)
BeginTestcase ==
    /\ rk_pc = "loop"
    /\ ti <= Len(testcases)
    /\ testcases[ti].has_input /\ testcases[ti].has_persona
    /\ out_dirs' = out_dirs \cup {ti}
    /\ persona_text' = strip(testcases[ti].persona)
    /\ all_sections' = <<>>
    /\ fi' = 1
    /\ rk_pc' = "files"
    /\ UNCHANGED <<model, testcases, ti, out_files>>

\* one iteration of the loop over the input folder (lines 97-100)
ExtractFile ==
    /\ rk_pc = "files"
    /\ fi <= Len(testcases[ti].files)
    /\ LET fname == testcases[ti].files[fi]
       IN  all_sections' =
              IF IsPdfName(fname)
              THEN all_sections \o extract_sections(fname, PdfDoc(fname))
              ELSE all_sections
    /\ fi' = fi + 1
    /\ UNCHANGED <<rk_pc, model, testcases, ti, persona_text, out_dirs,
                   out_files>>

\* ranking and the output file (lines 102-133); the sort is in place, so
\* all_sections ends sorted, its first entries being the ranked ones
RankAndWrite ==
    /\ rk_pc = "files"
    /\ fi > Len(testcases[ti].files)
    /\ LET sorted == score_sections(all_sections, persona_text, model)
           ranked == WithRanks(Top(sorted))
           output == Output(testcases[ti].files, persona_text, ranked)
       IN  /\ all_sections' = ranked \o SubSeq(sorted, Len(ranked) + 1, Len(sorted))
           /\ out_files' = [i \in DOMAIN out_files \cup {ti} |->
                               IF i = ti THEN output ELSE out_files[i]]
    /\ ti' = ti + 1
    /\ rk_pc' = "loop"
    /\ UNCHANGED <<model, testcases, fi, persona_text, out_dirs>>

\* the loop over the testcases is over
MainReturn ==
    /\ rk_pc = "loop"
    /\ ti > Len(testcases)
    /\ rk_pc' = "done"
    /\ UNCHANGED <<model, testcases, ti, fi, persona_text, all_sections,
                   out_dirs, out_files>>

MainNext ==
    \/ SkipTestcase
    \/ BeginTestcase
    \/ ExtractFile
    \/ RankAndWrite
    \/ MainReturn

-----------------------------------------------------------------------------
(* classify_heading_level, extract_sections and boost_score_with_keywords  *)
(* applied to inputs drawn from bounded sets.                              *)

MaxTextLen    == 4
LevelAlphabet == {"1", ".", " ", "a"}
LevelTexts    == SeqsUpTo(LevelAlphabet, MaxTextLen)

LevelInit ==
    /\ lv_pc = "call"
    /\ lv_a \in LevelTexts
    /\ lv_b \in LevelTexts
    /\ lv_ra = "unset"
    /\ lv_rb = "unset"

ClassifyTexts ==
    /\ lv_pc = "call"
    /\ lv_ra' = classify_heading_level(lv_a)
    /\ lv_rb' = classify_heading_level(lv_b)
    /\ lv_pc' = "done"
    /\ UNCHANGED <<lv_a, lv_b>>

MaxSecLines == 2

SecLineSet ==
    { <<Sp(Rep("a", 29), 100, RegularFont, 0)>>,
      <<Sp(Rep("a", 30), 100, RegularFont, 0)>>,
      <<Sp(<<" ", " ">> \o Rep("b", 29) \o <<" ">>, 100, BoldFont, 0)>>,
      <<Sp(Rep("c", 15), 100, RegularFont, 0), Sp(Rep("d", 14), 100, BoldFont, 0)>>,
      <<Sp(Rep("e", 121), 100, RegularFont, 0)>>,
      <<Sp(Rep("f", 601), 100, RegularFont, 0)>>,
      <<Sp(Rep("g", 30) \o <<".","P","Y">>, 100, RegularFont, 0)>>,
      <<Sp(Rep("h", 30) \o <<"U251C","U2500","U2500">>, 100, RegularFont, 0)>>,
      <<Sp(Rep("i", 30) \o <<".","k","e","r","a">>, 100, RegularFont, 0)>>,
      <<Sp(<<" ">>, 100, RegularFont, 0)>> }

SecDocs ==
    {d \in SeqsUpTo({[page |-> p, spans |-> l] : p \in 1..2, l \in SecLineSet},
                    MaxSecLines) :
        \A i, j \in 1..Len(d) : i < j => d[i].page <= d[j].page}

SectionsInit ==
    /\ sx_pc = "call"
    /\ sx_doc \in SecDocs
    /\ sx_out = <<>>

ExtractSections ==
    /\ sx_pc = "call"
    /\ sx_out' = extract_sections(FileA, sx_doc)
    /\ sx_pc' = "done"
    /\ UNCHANGED sx_doc

MaxWords == 2

BoostTokens ==
    { <<"R","e","v","e","n","u","e">>, <<"q","3">>, <<"c","o","s","t">>,
      <<"n","e","t">>, <<"i","n","c","o","m","e">>, <<"x">> }

RECURSIVE JoinWords(_)
JoinWords(ws) ==
    IF ws = <<>> THEN <<>>
    ELSE IF Len(ws) = 1 THEN Head(ws)
    ELSE Head(ws) \o <<" ">> \o JoinWords(Tail(ws))

BoostTexts == {JoinWords(ws) : ws \in SeqsUpTo(BoostTokens, MaxWords)}
OtherTexts == {JoinWords(ws) : ws \in SeqsUpTo(BoostTokens, 1)}
BaseScores == {0 - 20, 0, 35}

BoostInit ==
    /\ bs_pc = "call"
    /\ bs_text \in BoostTexts
    /\ bs_other \in OtherTexts
    /\ bs_base \in BaseScores
    /\ bs_result = 0
    /\ bs_result_other = 0

BoostScores ==
    /\ bs_pc = "call"
    /\ bs_result' = boost_score_with_keywords(bs_text, bs_base)
    /\ bs_result_other' = boost_score_with_keywords(bs_other, bs_base)
    /\ bs_pc' = "done"
    /\ UNCHANGED <<bs_text, bs_other, bs_base>>

-----------------------------------------------------------------------------
(* The parts that a specification does not run stay as they are.           *)

OutlineIdle ==
    /\ pc = "idle" /\ doc = <<>> /\ page_num = 1 /\ candidates = <<>>
    /\ font_sizes = <<>> /\ most_common_font_size = 0 /\ outline = <<>>
    /\ seen = {} /\ ci = 1

LevelIdle ==
    /\ lv_pc = "idle" /\ lv_a = <<>> /\ lv_b = <<>>
    /\ lv_ra = "unset" /\ lv_rb = "unset"

SectionsIdle == sx_pc = "idle" /\ sx_doc = <<>> /\ sx_out = <<>>

BoostIdle ==
    /\ bs_pc = "idle" /\ bs_text = <<>> /\ bs_other = <<>> /\ bs_base = 0
    /\ bs_result = 0 /\ bs_result_other = 0

MainIdle ==
    /\ rk_pc = "idle" /\ model = <<>> /\ testcases = <<>> /\ ti = 1 /\ fi = 1
    /\ persona_text = <<>> /\ all_sections = <<>> /\ out_dirs = {}
    /\ out_files = <<>>

\* adobe-hack-1a: extract_outline over a document
Init == OutlineInit /\ LevelIdle /\ SectionsIdle /\ BoostIdle /\ MainIdle
Next ==
    \/ /\ \E spans \in LineSet, np \in {0, 1} : ReadLine(spans, np)
       /\ UNCHANGED <<levelVars, sectionVars, boostVars, rankVars>>
    \/ ReturnEmpty /\ UNCHANGED <<levelVars, sectionVars, boostVars, rankVars>>
    \/ BodyTextSize /\ UNCHANGED <<levelVars, sectionVars, boostVars, rankVars>>
    \/ FilterCandidate /\ UNCHANGED <<levelVars, sectionVars, boostVars, rankVars>>
    \/ ReturnOutline /\ UNCHANGED <<levelVars, sectionVars, boostVars, rankVars>>
Spec == Init /\ [][Next]_vars

\* adobe-hack-1a: classify_heading_level over two texts
InitLevel == LevelInit /\ OutlineIdle /\ SectionsIdle /\ BoostIdle /\ MainIdle
NextLevel ==
    ClassifyTexts /\ UNCHANGED <<outlineVars, sectionVars, boostVars, rankVars>>
SpecLevel == InitLevel /\ [][NextLevel]_vars

\* adobe-hack-1b: extract_sections over a document
InitSections == SectionsInit /\ OutlineIdle /\ LevelIdle /\ BoostIdle /\ MainIdle
NextSections ==
    ExtractSections /\ UNCHANGED <<outlineVars, levelVars, boostVars, rankVars>>
SpecSections == InitSections /\ [][NextSections]_vars

\* adobe-hack-1b: boost_score_with_keywords over two texts and a base score
InitBoost == BoostInit /\ OutlineIdle /\ LevelIdle /\ SectionsIdle /\ MainIdle
NextBoost ==
    BoostScores /\ UNCHANGED <<outlineVars, levelVars, sectionVars, rankVars>>
SpecBoost == InitBoost /\ [][NextBoost]_vars

\* adobe-hack-1b: main over one testcase, any model, any listing of its files,
\* one persona
NextMain ==
    \/ SkipTestcase /\ UNCHANGED <<outlineVars, levelVars, sectionVars, boostVars>>
    \/ BeginTestcase /\ UNCHANGED <<outlineVars, levelVars, sectionVars, boostVars>>
    \/ ExtractFile /\ UNCHANGED <<outlineVars, levelVars, sectionVars, boostVars>>
    \/ RankAndWrite /\ UNCHANGED <<outlineVars, levelVars, sectionVars, boostVars>>
    \/ MainReturn /\ UNCHANGED <<outlineVars, levelVars, sectionVars, boostVars>>
InitRank ==
    /\ \E p \in {<<"C","F","O">>} :
       \E sim \in [{strip(p)} \X SectionTexts -> ScoreSet],
          tc \in TestcaseSet(FileLists(MaxFiles), {p}) :
          MainInit(sim, <<tc>>)
    /\ OutlineIdle /\ LevelIdle /\ SectionsIdle /\ BoostIdle
SpecRank == InitRank /\ [][NextMain]_vars

\* adobe-hack-1b: main over several testcases of one file each, one model
TaskModel ==
    [x \in Personas \X SectionTexts |->
        IF x[2] = PlainText THEN BoostStep ELSE 0]
TaskLists == {<<FileC>>, <<FileD>>, <<FileE>>}
InitTasks ==
    /\ \E listing \in SeqsUpTo(TestcaseSet(TaskLists, PersonaFiles),
                                MaxTestcases) :
          MainInit(TaskModel, listing)
    /\ OutlineIdle /\ LevelIdle /\ SectionsIdle /\ BoostIdle
SpecTasks == InitTasks /\ [][NextMain]_vars

-----------------------------------------------------------------------------
(* Properties of adobe-hack-1a.                                            *)

\* p reads digits(.digits)*
IsNumeral(p) ==
    /\ p # <<>>
    /\ \A i \in 1..Len(p) : p[i] \in Digits \cup {"."}
    /\ p[1] \in Digits /\ p[Len(p)] \in Digits
    /\ \A i \in 1..(Len(p) - 1) : ~(p[i] = "." /\ p[i + 1] = ".")

\* the lengths k such that text starts with a numeral of k characters
\* followed by whitespace
NumericPrefixes(t) ==
    {k \in 1..(Len(t) - 1) :
        IsNumeral(SubSeq(t, 1, k)) /\ t[k + 1] \in Whitespace}

HasNumericPrefix(t) == NumericPrefixes(t) # {}

\* the number of dot separators inside the numeric prefix of t
PrefixDots(t) ==
    LET k == CHOOSE n \in NumericPrefixes(t) : TRUE
    IN  Cardinality({i \in 1..k : t[i] = "."})

LevelNumber(l) == CHOOSE n \in 1..3 : LevelName(n) = l

\* the text of the i-th line of the document
DocText(i) == full_line_text(doc[i].spans)

\* the most frequent element of xs, the earliest among the most frequent
Mode(xs) ==
    LET N(x) == Cardinality({i \in 1..Len(xs) : xs[i] = x})
        F(x) == CHOOSE i \in 1..Len(xs) :
                    xs[i] = x /\ \A j \in 1..(i - 1) : xs[j] # x
    IN  CHOOSE x \in {xs[i] : i \in 1..Len(xs)} :
            \A i \in 1..Len(xs) :
                N(x) > N(xs[i]) \/ (N(x) = N(xs[i]) /\ F(x) <= F(xs[i]))

\* the sizes of all spans with text of the first n lines, in order
RECURSIVE DocSizes(_)
DocSizes(n) ==
    IF n = 0 THEN <<>>
    ELSE DocSizes(n - 1) \o
         LET sp == doc[n].spans
             ix == {k \in 1..Len(sp) : strip(sp[k].text) # <<>>}
         IN  SelectSeq([k \in 1..Len(sp) |->
                           IF k \in ix THEN sp[k].size ELSE 0],
                       LAMBDA z : z # 0)

\* the style (size, font, bold) of the i-th line: the mode of its spans
LineStyle(i) ==
    LET sp == SelectSeq(doc[i].spans, LAMBDA z : strip(z.text) # <<>>)
    IN  Mode([k \in 1..Len(sp) |->
                 <<sp[k].size, sp[k].font, (sp[k].flags \div 2) % 2 = 1>>])

\* the four heading signals of the i-th line
HasSignal(i) ==
    \/ LineStyle(i)[1] > Mode(DocSizes(Len(doc))) + 10
    \/ LineStyle(i)[3]
    \/ isupper(DocText(i))
    \/ HasNumericPrefix(DocText(i))

FirstOccurrence(i) == \A j \in 1..(i - 1) : DocText(j) # DocText(i)

ShouldAppear(i) ==
    /\ FirstOccurrence(i)
    /\ Len(DocText(i)) >= 5
    /\ HasSignal(i)

\* text and page of the lines among the first n that should appear
RECURSIVE ExpectedEntries(_)
ExpectedEntries(n) ==
    IF n = 0 THEN <<>>
    ELSE ExpectedEntries(n - 1) \o
         (IF ShouldAppear(n)
          THEN <<[text |-> DocText(n), page |-> doc[n].page]>>
          ELSE <<>>)

OutlineEntries ==
    [i \in 1..Len(outline) |->
        [text |-> outline[i].text, page |-> outline[i].page]]

\* C1: every emitted heading has level H{min(d+1, 3)}, d being the number
\* of dots inside its numeric prefix, and H1 when it has no numeric prefix;
\* so the level is one of H1, H2, H3.
C1_LevelFromPrefix ==
    \A i \in 1..Len(outline) :
        /\ outline[i].level \in {"H1", "H2", "H3"}
        /\ outline[i].level =
              IF HasNumericPrefix(outline[i].text)
              THEN LevelName(Min(PrefixDots(outline[i].text) + 1, 3))
              ELSE "H1"

\* C2: of two texts with a numeric prefix, the one whose prefix has strictly
\* more dots never gets a lower level number from classify_heading_level.
C2_LevelMonotone ==
    (/\ lv_pc = "done"
     /\ HasNumericPrefix(lv_a) /\ HasNumericPrefix(lv_b)
     /\ PrefixDots(lv_a) > PrefixDots(lv_b))
    => LevelNumber(lv_ra) >= LevelNumber(lv_rb)

\* C6: the outline holds exactly the lines that are the first occurrence of
\* their text, have at least 5 characters and show one of the four signals;
\* a document without text gives an empty outline.
C6_OutlineLines ==
    pc = "done" =>
        /\ OutlineEntries = ExpectedEntries(Len(doc))
        /\ (DocSizes(Len(doc)) = <<>> => outline = <<>>)

C6_Witness ==
    /\ pc = "done"
    /\ outline # <<>>
    /\ \E i \in 1..Len(doc) :
          ~FirstOccurrence(i) /\ Len(DocText(i)) >= 5 /\ HasSignal(i)
    /\ \E i \in 1..Len(doc) :
          FirstOccurrence(i) /\ Len(DocText(i)) >= 5 /\ ~HasSignal(i)

\* the first line of the document whose text is t
FirstLine(t) ==
    CHOOSE i \in 1..Len(doc) :
        DocText(i) = t /\ \A j \in 1..(i - 1) : DocText(j) # t

\* C7: no two outline entries have the same text, each entry carries the
\* page of the first occurrence of its text, the entries are in document
\* order, and the pages along the outline never decrease.
C7_OutlineOrder ==
    /\ \A i, j \in 1..Len(outline) :
          i < j => /\ outline[i].text # outline[j].text
                   /\ FirstLine(outline[i].text) < FirstLine(outline[j].text)
                   /\ outline[i].page <= outline[j].page
    /\ \A i \in 1..Len(outline) :
          /\ \E k \in 1..Len(doc) : DocText(k) = outline[i].text
          /\ outline[i].page = doc[FirstLine(outline[i].text)].page

C7_Witness ==
    /\ pc = "done"
    /\ Len(outline) >= 2
    /\ outline[1].page < outline[2].page
    /\ \E i, j \in 1..Len(doc) :
          /\ i < j /\ DocText(i) = DocText(j) /\ doc[i].page < doc[j].page
          /\ \E k \in 1..Len(outline) : outline[k].text = DocText(i)

-----------------------------------------------------------------------------
(* Properties of adobe-hack-1b.                                            *)

\* sub occurs in s
Occurs(sub, s) ==
    \E i \in 1..(Len(s) - Len(sub) + 1) : SubSeq(s, i, i + Len(sub) - 1) = sub

\* a and b are the same character up to case
SameLetter(a, b) ==
    \/ a = b
    \/ \E n \in 1..Len(UpperAlpha) :
          {a, b} = {UpperAlpha[n], LowerAlpha[n]}

\* sub occurs in s, compared case-insensitively
OccursAnyCase(sub, s) ==
    \E i \in 0..(Len(s) - Len(sub)) :
        \A j \in 1..Len(sub) : SameLetter(s[i + j], sub[j])

\* the keyword list entries that occur in text
KeywordsIn(text) ==
    {k \in 1..Len(financial_keywords) :
        OccursAnyCase(financial_keywords[k], text)}

RevenueEntry == CHOOSE k \in 1..Len(financial_keywords) :
                    financial_keywords[k] = <<"r","e","v","e","n","u","e">>
Q3Entry      == CHOOSE k \in 1..Len(financial_keywords) :
                    financial_keywords[k] = <<"Q","3">>

\* C5: the result is base + 0.05 * (number of list entries that occur in the
\* text, case-insensitively, each counted once); a text with "revenue" and
\* "Q3" scores at least 0.10 more than a text that lacks both and holds the
\* same other entries, at equal base score.
C5_BoostFormula ==
    bs_pc = "done" =>
        /\ bs_result = bs_base + 5 * Cardinality(KeywordsIn(bs_text))
        /\ bs_result_other = bs_base + 5 * Cardinality(KeywordsIn(bs_other))
        /\ (/\ {RevenueEntry, Q3Entry} \subseteq KeywordsIn(bs_text)
            /\ KeywordsIn(bs_other) = KeywordsIn(bs_text) \ {RevenueEntry, Q3Entry})
           => bs_result >= bs_result_other + 10

C5_Witness ==
    /\ bs_pc = "done"
    /\ {RevenueEntry, Q3Entry} \subseteq KeywordsIn(bs_text)
    /\ KeywordsIn(bs_other) = KeywordsIn(bs_text) \ {RevenueEntry, Q3Entry}
    /\ bs_result = bs_result_other + 10
    /\ bs_base # 0

\* the trimmed text of ln has at least 30 characters and, in lower case,
\* no blocklisted substring
QualifyingLine(ln) ==
    LET t == line_text(ln.spans)
    IN  /\ Len(t) >= 30
        /\ ~Occurs(<<".","p","y">>, lower(t))
        /\ ~Occurs(<<".","k","e","r","a","s">>, lower(t))
        /\ ~Occurs(<<"U2502">>, lower(t))
        /\ ~Occurs(<<"U251C","U2500","U2500">>, lower(t))
        /\ ~Occurs(<<"U2514","U2500","U2500">>, lower(t))

\* ln is a qualifying line and s is its record
RecordOf(s, ln) ==
    LET t == line_text(ln.spans)
    IN  /\ QualifyingLine(ln)
        /\ s.page = ln.page
        /\ s.section_title = SubSeq(t, 1, IF Len(t) > 120 THEN 120 ELSE Len(t))
        /\ s.refined_text = SubSeq(t, 1, IF Len(t) > 600 THEN 600 ELSE Len(t))

\* C8: every record of extract_sections comes from a line whose trimmed text
\* has at least 30 characters and no blocklisted substring (in lower case);
\* its title is the first 120 and its body the first 600 characters.
C8_SectionRecords ==
    sx_pc = "done" =>
        \A i \in 1..Len(sx_out) :
            \E k \in 1..Len(sx_doc) : RecordOf(sx_out[i], sx_doc[k])

C8_Witness ==
    /\ sx_pc = "done"
    /\ \E i \in 1..Len(sx_out) :
          /\ Len(sx_out[i].refined_text) = 600
          /\ Len(sx_out[i].section_title) = 120
    /\ \E k \in 1..Len(sx_doc) :
          /\ Len(line_text(sx_doc[k].spans)) >= 30
          /\ \A i \in 1..Len(sx_out) : ~RecordOf(sx_out[i], sx_doc[k])

\* the step of main that ranks and writes the output of testcase ti
RankStep == rk_pc = "files" /\ rk_pc' = "loop"

\* section a is the record b, whatever score and rank b carries
SameSection(a, b) ==
    /\ a.document = b.document
    /\ a.page = b.page
    /\ a.section_title = b.section_title

\* C3: for N collected sections the ranked output has exactly min(20, N)
\* entries, each one of the collected sections, and the entry at position i
\* has importance_rank i.
C3_TopTwenty ==
    [][RankStep =>
        LET N   == Len(all_sections)
            out == out_files'[ti].extracted_sections
        IN  /\ Len(out) = IF N < 20 THEN N ELSE 20
            /\ Len(out_files'[ti].subsection_analysis) = Len(out)
            /\ \A i \in 1..Len(out) :
                  /\ out[i].importance_rank = i
                  /\ \E j \in 1..N : SameSection(out[i], all_sections[j])]_vars

C3_Witness ==
    /\ rk_pc = "done"
    /\ 1 \in DOMAIN out_files
    /\ Len(all_sections) > 20
    /\ Len(out_files[1].extracted_sections) = 20
    /\ out_files[1].extracted_sections[20].importance_rank = 20

\* the position among the collected sections of the record b
CollectedAt(b) ==
    CHOOSE j \in 1..Len(all_sections) : SameSection(all_sections[j], b)

\* C4: the sections are ordered by boosted score, descending, sections of
\* equal score in the order of their collection; so a smaller rank never
\* has a smaller score, and no section outside the top 20 has a higher
\* score than one inside.
C4_SortedStable ==
    [][RankStep =>
        LET after == all_sections'
            out   == out_files'[ti].extracted_sections
        IN  /\ Len(after) = Len(all_sections)
            /\ \A i \in 1..Len(after) :
                  \E j \in 1..Len(all_sections) :
                      SameSection(all_sections[j], after[i])
            /\ \A i, j \in 1..Len(after) :
                  i < j =>
                     /\ after[i].boosted_score >= after[j].boosted_score
                     /\ CollectedAt(after[i]) # CollectedAt(after[j])
                     /\ after[i].boosted_score = after[j].boosted_score
                           => CollectedAt(after[i]) < CollectedAt(after[j])
            /\ \A i \in 1..Len(out) :
                  /\ SameSection(out[i], after[i])
                  /\ out[i].boosted_score = after[i].boosted_score
                  /\ \A j \in 1..Len(out) :
                        out[i].importance_rank < out[j].importance_rank
                           => out[i].boosted_score >= out[j].boosted_score
                  /\ \A k \in (Len(out) + 1)..Len(after) :
                        after[k].boosted_score <= out[i].boosted_score]_vars

C4_Witness ==
    /\ rk_pc = "done"
    /\ 1 \in DOMAIN out_files
    /\ Len(all_sections) > 20
    /\ LET out == out_files[1].extracted_sections
       IN  /\ \E i \in 1..(Len(out) - 1) :
                 /\ out[i].boosted_score = out[i + 1].boosted_score
                 /\ out[i].document # out[i + 1].document
           /\ out[1].boosted_score > out[Len(out)].boosted_score
           /\ all_sections[Len(all_sections)].boosted_score
                 = out[Len(out)].boosted_score

\* the sections that the PDFs of the input folder of testcase i hold
OwnCount(i) ==
    LET fs == testcases[i].files
        pdfs == {k \in 1..Len(fs) :
                    /\ Len(fs[k]) >= 4
                    /\ OccursAnyCase(<<".","p","d","f">>,
                                     SubSeq(fs[k], Len(fs[k]) - 3, Len(fs[k])))}
        n(k) == Cardinality({m \in 1..Len(PdfDoc(fs[k])) :
                    QualifyingLine(PdfDoc(fs[k])[m])})
        RECURSIVE Sum(_)
        Sum(S) == IF S = {} THEN 0
                  ELSE LET k == CHOOSE x \in S : TRUE
                       IN  n(k) + Sum(S \ {k})
    IN  Sum(pdfs)

\* C9: a testcase without input folder or persona file gets no output
\* folder and no output file; every other testcase gets its output, built
\* from its own persona and the documents of its own input folder.
C9_SkipIsolation ==
    /\ \A i \in 1..Len(testcases) :
          ~(testcases[i].has_input /\ testcases[i].has_persona)
             => i \notin out_dirs /\ i \notin DOMAIN out_files
    /\ rk_pc = "done" =>
          \A i \in 1..Len(testcases) :
              (testcases[i].has_input /\ testcases[i].has_persona) =>
                 /\ i \in out_dirs
                 /\ i \in DOMAIN out_files
                 /\ out_files[i].metadata.persona = strip(testcases[i].persona)
                 /\ Len(out_files[i].extracted_sections)
                       = (IF OwnCount(i) < 20 THEN OwnCount(i) ELSE 20)
                 /\ \A e \in 1..Len(out_files[i].extracted_sections) :
                       LET d == out_files[i].extracted_sections[e].document
                       IN  /\ \E k \in 1..Len(testcases[i].files) :
                                 testcases[i].files[k] = d
                           /\ \E m \in 1..Len(PdfDoc(d)) :
                                 RecordOf(
                                   [page |-> out_files[i].extracted_sections[e].page,
                                    section_title |->
                                       out_files[i].extracted_sections[e].section_title,
                                    refined_text |->
                                       out_files[i].subsection_analysis[e].refined_text],
                                   PdfDoc(d)[m])

C9_Witness ==
    /\ rk_pc = "done"
    /\ Len(testcases) >= 2
    /\ testcases[1].has_input /\ ~testcases[1].has_persona
    /\ testcases[1].files # <<>>
    /\ 2 \in DOMAIN out_files
    /\ out_files[2].extracted_sections # <<>>

\* C10: every document named in extracted_sections or subsection_analysis
\* is listed in metadata.input_documents.
C10_DocumentsListed ==
    \A i \in DOMAIN out_files :
        LET listed == {out_files[i].metadata.input_documents[k] :
                          k \in 1..Len(out_files[i].metadata.input_documents)}
        IN  /\ \A e \in 1..Len(out_files[i].extracted_sections) :
                  out_files[i].extracted_sections[e].document \in listed
            /\ \A e \in 1..Len(out_files[i].subsection_analysis) :
                  out_files[i].subsection_analysis[e].document \in listed

=============================================================================
